---- MODULE Spec2Model ----
(***************************************************************************)
(* imge: block-wise copy / verify between a disk image and a drive and     *)
(* the formatting of byte counts (src/imge.rs), and the UI loop that       *)
(* dispatches the workers (src/mainloop.rs).                               *)
(*                                                                         *)
(* Files are sequences of bytes.  imageData is the decoded stream of the   *)
(* image file (what libarchive's raw reader yields, what its raw writer    *)
(* is handed); driveData is the content of the block device, its length    *)
(* the device's capacity.  A read of a file or device returns              *)
(* min(requested, remaining) bytes or fails; an archive call returns a     *)
(* byte count, 0 at the end of the stream, or a negative code.             *)
(***************************************************************************)
EXTENDS Integers, Sequences, FiniteSets, TLC

\* ------------------------------------------------------------------ bounds
\* BLOCK_SIZE is 1024 * 1024 in the program; the model scales it down.
BLOCK_SIZE == 2
\* Longest image / largest drive, in bytes.
MaxLen == 3
\* Largest value timer.elapsed().as_secs() yields in one phase.
MaxSecs == 1
\* Worker threads one run may spawn.
MaxWorkers == 2
\* Opens, reads and writes the environment lets fail in one run.
MaxFaults == 1

Byte == {0, 1}
Workers == 1..MaxWorkers

\* Option<T>: None is the empty sequence, Some(x) is <<x>>.
None == <<>>
Some(x) == <<x>>
IsSome(o) == Len(o) = 1
Unwrap(o) == o[1]

Min(a, b) == IF a < b THEN a ELSE b
Take(s, n) == SubSeq(s, 1, n)
Zeros(n) == [i \in 1..n |-> 0]
SeqsUpTo(n) == UNION {[1..k -> Byte] : k \in 0..n}
Flip(s, k) == [i \in 1..Len(s) |-> IF i = k THEN 1 - s[i] ELSE s[i]]

\* The drives an image is paired with: the same bytes, one byte differing,
\* the last byte missing (a smaller drive), one more byte (a larger drive).
DriveVariants(img) ==
    {img}
      \cup {Flip(img, k) : k \in 1..Len(img)}
      \cup (IF Len(img) > 0 THEN {Take(img, Len(img) - 1)} ELSE {})
      \cup (IF Len(img) < MaxLen THEN {Append(img, b) : b \in Byte} ELSE {})

\* Error messages of io::Error::other / of the operating system.
ErrTooLarge == "File too large (os error 27)"
ErrVerify == "Verification failed"
ErrOpen == "open failed"
ErrIo == "I/O error"

VARIABLES
    imageData,   \* decoded content of the image file
    driveData,   \* content of the drive
    wk,          \* wk[w]: the call worker thread w runs, its locals
    progress,    \* progress[w]: the Progress behind worker w's Arc<Mutex<..>>
    hist,        \* hist[w]: what worker w's call has done so far (history)
    obs,         \* obs[w]: what an observer polling progress[w] has seen
    error,       \* the shared error slot, Arc<Mutex<Option<io::Error>>>
    args,        \* the command line, Args of main.rs
    ui,          \* the Mainloop: where run() is, and its fields
    injected,    \* how many opens, reads and writes have failed so far
    hz           \* a call of humanize: its argument and what it returned

vars ==
    <<imageData, driveData, wk, progress, hist, obs, error, args, ui, injected,
      hz>>

\* ------------------------------------------------------ Progress (imge.rs)
Progress(size, secs) ==
    [size |-> size, done |-> 0, secs |-> secs, finished |-> FALSE]

\* progress.done = len as u64, a slip for +=
SetDone(p, len) == [p EXCEPT !.done = len]

\* progress.done += len as u64; progress.finished = true: finished set
\* with a block's update instead of after the last one
AddDoneFinished(p, len) == [p EXCEPT !.done = @ + len, !.finished = TRUE]

\* progress.done += len as u64
AddDone(p, len) == [p EXCEPT !.done = @ + len]

\* ------------------------------------------------------------ worker state
IdleWorker ==
    [kind |-> "none", pc |-> "idle", from_drive |-> FALSE, mime |-> "octet",
     ssize |-> None, dsize |-> None, soff |-> 0, doff |-> 0,
     srcbuffer |-> <<>>, destbuffer |-> <<>>, result |-> "none",
     drive |-> None]

NoHist ==
    [reads |-> 0, writes |-> 0, faults |-> {}, afterFail |-> 0,
     wlog |-> <<>>, srcOpened |-> FALSE, destOpened |-> FALSE,
     closed |-> FALSE, direct |-> "none", driveVia |-> {}, dsync |-> "none",
     progress0 |-> Progress(0, 0), image0 |-> <<>>, drive0 |-> <<>>,
     modal0 |-> "None", error0 |-> None, prev |-> None, elapsed |-> 0,
     short |-> FALSE, afterShort |-> 0, trailer |-> FALSE,
     buffer |-> "none"]

NoObs ==
    [seen |-> {}, last |-> 0, finished |-> FALSE, monotone |-> TRUE,
     final |-> None, settled |-> TRUE]

\* The file a call reads as its source / touches as its destination.
SrcData(w) == IF wk[w].from_drive THEN driveData ELSE imageData
DestData(w) == IF wk[w].from_drive THEN imageData ELSE driveData

\* What one read of at most BLOCK_SIZE bytes at offset off of data returns.
ReadAt(data, off) ==
    SubSeq(data, off + 1, Min(Len(data), off + BLOCK_SIZE))

\* buf after n = Len(data) bytes were read into its front.
Fill(buf, data) == data \o SubSeq(buf, Len(data) + 1, Len(buf))

\* file after data was written at offset off, as far as the file reaches.
WriteAt(file, off, data) ==
    [i \in 1..Len(file) |->
        IF off < i /\ i <= off + Len(data) THEN data[i - off] ELSE file[i]]

\* One more fault of kind f in worker w's call.
Fault(h, f) == [h EXCEPT !.faults = @ \cup {f}]

\* One more read (r = 1) or write (r = 0) issued by the call.
Op(h, r) ==
    [h EXCEPT !.reads = @ + r, !.writes = @ + (1 - r),
              !.afterFail = IF h.faults # {} THEN @ + 1 ELSE @]

\* The environment lets this step's calls succeed (ok), or one of them fail.
Inject(ok) ==
    /\ ok \/ injected < MaxFaults
    /\ injected' = IF ok THEN injected ELSE injected + 1


\* The closure of thread::spawn, run when the call returns:
\* if let Err(err) = result { *error.lock().unwrap() = Some(err); }
StoreError(w) ==
    error' = IF wk'[w].pc = "returned" /\ wk'[w].result # "Ok"
               THEN Some(wk'[w].result)
               ELSE error

\* --------------------------------------------------------- copy (imge.rs)
\* if ssize < dsize: the comparison turned round
SizePrecondSwapped(ssize, dsize, from_drive) ==
    IsSome(ssize) /\ IsSome(dsize) /\ ~from_drive /\ Unwrap(ssize) < Unwrap(dsize)

\* if let (Some(ssize), Some(dsize)) = .. { if !from_drive && ssize > dsize
SizePrecondFails(ssize, dsize, from_drive) ==
    IsSome(ssize) /\ IsSome(dsize) /\ ~from_drive /\ Unwrap(ssize) > Unwrap(dsize)

\* The size check placed after the two opens instead of before them.
copy_fail_precond_late(w) ==
    /\ wk' = [wk EXCEPT ![w].pc = "returned", ![w].result = ErrTooLarge]
    /\ hist' = [hist EXCEPT ![w].srcOpened = TRUE, ![w].destOpened = TRUE]
    /\ imageData' = IF wk[w].from_drive THEN <<>> ELSE imageData
    /\ UNCHANGED <<driveData, progress>>

\* return Err(io::Error::other("File too large (os error 27)")), first of all
copy_fail_precond(w) ==
    /\ wk' = [wk EXCEPT ![w].pc = "returned", ![w].result = ErrTooLarge]
    /\ UNCHANGED <<imageData, driveData, progress, hist>>

\* File::open(src), OpenOptions..truncate(true)..open(dest), libarchive_open_*
copy_open(w) ==
    \E o \in {"ok", "src", "dest", "archive"} :
        LET fd == wk[w].from_drive
            destOpen == o \in {"ok", "archive"}
        IN  /\ Inject(o = "ok")
            /\ wk' = [wk EXCEPT
                  ![w].pc = IF o = "ok" THEN "loop" ELSE "returned",
                  ![w].result = IF o = "ok" THEN @ ELSE ErrOpen,
                  ![w].srcbuffer = IF o = "ok" THEN Zeros(BLOCK_SIZE) ELSE @]
            /\ hist' = [hist EXCEPT
                  ![w].srcOpened = (o # "src"),
                  ![w].destOpened = destOpen,
                  \* custom_flags(libc::O_DSYNC) on dest.path, either direction
                  ![w].dsync = IF ~destOpen THEN @
                               ELSE IF fd THEN "image" ELSE "drive",
                  ![w].faults = IF o = "ok" THEN @ ELSE @ \cup {"open"}]
            \* truncate(true) empties an image file; a block device keeps its size
            /\ imageData' = IF fd /\ destOpen /\ ~args.char_device
                              THEN <<>> ELSE imageData
            /\ UNCHANGED <<driveData, progress>>

copy_begin(w) ==
    /\ wk[w].kind = "copy" /\ wk[w].pc = "begin"
    /\ IF SizePrecondFails(wk[w].ssize, wk[w].dsize, wk[w].from_drive)
         THEN copy_fail_precond(w) /\ UNCHANGED injected
         ELSE copy_open(w)
    /\ StoreError(w)
    /\ UNCHANGED <<obs, args, ui>>

\* if len < BLOCK_SIZE { break; }: a short block taken for the end
AtEofShort(len) == len < BLOCK_SIZE

\* if len <= 0 { break; }
AtEof(len) == len <= 0

\* &buffer: the whole buffer instead of the bytes read
WriteWhole(buffer, len) == buffer

\* &buffer[..(len as usize)]
WriteSlice(buffer, len) == Take(buffer, len)

\* One turn of copy's loop: read a block, write it, add it to progress.done.
copy_loop(w) ==
    /\ wk[w].kind = "copy" /\ wk[w].pc = "loop"
    /\ \E rok \in BOOLEAN, wok \in BOOLEAN :
        LET fd == wk[w].from_drive
            archive == fd /\ wk[w].mime # "octet"
            data == IF rok THEN ReadAt(SrcData(w), wk[w].soff) ELSE <<>>
            \* archive_read_data: a negative code; srcfile.read: Err, see below
            len == IF rok THEN Len(data) ELSE -1
            h0 == Op(hist[w], 1)
            h1 == IF rok THEN h0 ELSE Fault(h0, "read")
            buffer == Fill(wk[w].srcbuffer, data)
            slice == WriteSlice(buffer, IF len > 0 THEN len ELSE 0)
            \* a write past the end of the device: ENOSPC
            nospace == ~fd /\ wk[w].doff + len > Len(driveData)
            wfail == ~wok \/ (~archive /\ nospace)
            h2 == LET h == Op(h1, 0)
                  IN  IF wfail THEN Fault(h, "write")
                      ELSE [h EXCEPT !.wlog = @ \o slice]
        IN  Inject(rok /\ wok) /\
            IF ~rok /\ fd THEN
                \* srcfile.read(&mut buffer)? returns the error
                /\ wok
                /\ wk' = [wk EXCEPT ![w].pc = "returned", ![w].result = ErrIo]
                /\ hist' = [hist EXCEPT ![w] = h1]
                /\ UNCHANGED <<imageData, driveData, progress>>
            ELSE IF AtEof(len) THEN
                /\ wok
                /\ wk' = [wk EXCEPT ![w].pc = "close"]
                /\ hist' = [hist EXCEPT ![w] = h1]
                /\ UNCHANGED <<imageData, driveData, progress>>
            ELSE
                /\ hist' = [hist EXCEPT ![w] = h2]
                \* a character device keeps nothing of what is written to it
                /\ imageData' = IF fd /\ wok /\ ~args.char_device
                                  THEN imageData \o slice ELSE imageData
                /\ driveData' = IF ~fd /\ wok
                                  THEN WriteAt(driveData, wk[w].doff, slice)
                                  ELSE driveData
                /\ IF wfail /\ ~archive THEN
                       \* destfile.write_all(..)? returns the error
                       /\ wk' = [wk EXCEPT ![w].pc = "returned",
                                           ![w].result = ErrIo,
                                           ![w].srcbuffer = buffer]
                       /\ UNCHANGED progress
                   ELSE
                       \* the result of archive_write_data is not looked at
                       /\ wk' = [wk EXCEPT ![w].srcbuffer = buffer,
                                           ![w].soff = @ + len,
                                           ![w].doff = IF wfail THEN @ ELSE @ + len]
                       /\ progress' = [progress EXCEPT ![w] = AddDone(@, len)]
    /\ StoreError(w)
    /\ UNCHANGED <<obs, args, ui>>

\* The close left out: the loop's end goes straight on to the finish.
copy_close_skipped(w) ==
    /\ wk[w].kind = "copy" /\ wk[w].pc = "close"
    /\ wk' = [wk EXCEPT ![w].pc = "finish"]
    /\ StoreError(w)
    /\ UNCHANGED <<imageData, driveData, progress, hist, obs, args, ui, injected>>

\* libarchive_close_for_reading(a) / libarchive_close_for_writing(a, ae):
\* archive_write_close flushes what the filter holds and its trailer; what
\* it returns is not looked at.
copy_close(w) ==
    /\ wk[w].kind = "copy" /\ wk[w].pc = "close"
    /\ \E ok \in BOOLEAN :
        /\ ok \/ wk[w].from_drive
        /\ Inject(ok)
        /\ hist' = [hist EXCEPT
              ![w].closed = TRUE,
              ![w].trailer = ok /\ wk[w].from_drive /\ wk[w].mime # "octet",
              ![w].faults = IF ok THEN @ ELSE @ \cup {"close"}]
    /\ wk' = [wk EXCEPT ![w].pc = "finish"]
    /\ StoreError(w)
    /\ UNCHANGED <<imageData, driveData, progress, obs, args, ui>>

\* progress.secs = timer.elapsed().as_secs(); progress.finished = true; Ok(())
copy_finish(w) ==
    /\ wk[w].kind = "copy" /\ wk[w].pc = "finish"
    /\ \E s \in 0..MaxSecs :
        /\ progress' = [progress EXCEPT ![w].secs = s, ![w].finished = TRUE]
        /\ hist' = [hist EXCEPT ![w].elapsed = s]
    /\ wk' = [wk EXCEPT ![w].pc = "returned", ![w].result = "Ok"]
    /\ StoreError(w)
    /\ UNCHANGED <<imageData, driveData, obs, args, ui, injected>>


\* ------------------------------------------------------- verify (imge.rs)
\* File::open(src), OpenOptions..custom_flags(O_DIRECT).open(dest),
\* libarchive_open_for_reading, the two buffers
verify_begin(w) ==
    /\ wk[w].kind = "verify" /\ wk[w].pc = "begin"
    /\ \E o \in {"ok", "src", "dest", "archive"} :
       \* alloc() hands out memory of any content
       \E garbage \in [1..BLOCK_SIZE -> Byte] :
        LET destOpen == o \in {"ok", "archive"}
        IN  /\ o # "ok" => garbage = Zeros(BLOCK_SIZE)
            /\ Inject(o = "ok")
            /\ wk' = [wk EXCEPT
                  ![w].pc = IF o = "ok" THEN "loop" ELSE "returned",
                  ![w].result = IF o = "ok" THEN @ ELSE ErrOpen,
                  ![w].srcbuffer = IF o = "ok" THEN Zeros(BLOCK_SIZE) ELSE @,
                  ![w].destbuffer = IF o = "ok" THEN garbage ELSE @]
            /\ hist' = [hist EXCEPT
                  ![w].srcOpened = (o # "src"),
                  ![w].destOpened = destOpen,
                  \* O_DIRECT is asked for on dest.path
                  ![w].direct = IF ~destOpen THEN @
                                ELSE IF wk[w].from_drive THEN "image" ELSE "drive",
                  \* alloc(Layout::from_size_align(BLOCK_SIZE, BLOCK_SIZE))
                  ![w].buffer = IF o = "ok" THEN "allocated" ELSE @,
                  ![w].faults = IF o = "ok" THEN @ ELSE @ \cup {"open"}]
    /\ StoreError(w)
    /\ UNCHANGED <<imageData, driveData, progress, obs, args, ui>>

\* srcbuffer[0] != destbuffer[0]: only the first byte compared
MismatchFirst(srcbuffer, destbuffer, len) == srcbuffer[1] # destbuffer[1]

\* srcbuffer[..len as usize] != destbuffer[..len as usize]
Mismatch(srcbuffer, destbuffer, len) == Take(srcbuffer, len) # Take(destbuffer, len)

\* One turn of verify's loop: read a block of each side, compare, add to done.
verify_loop(w) ==
    /\ wk[w].kind = "verify" /\ wk[w].pc = "loop"
    /\ \E rok \in BOOLEAN, dok \in BOOLEAN :
        LET fd == wk[w].from_drive
            data == IF rok THEN ReadAt(SrcData(w), wk[w].soff) ELSE <<>>
            len == IF rok THEN Len(data) ELSE -1
            \* reads issued after the image side has returned a short block
            late == IF hist[w].short THEN 1 ELSE 0
            h0 == [Op(hist[w], 1) EXCEPT
                      !.afterShort = @ + late,
                      !.short = @ \/ (~fd /\ 0 < len /\ len < BLOCK_SIZE)]
            h1 == IF ~rok THEN Fault(h0, "read")
                  ELSE IF fd /\ len > 0
                         \* the drive is read through srcfile, opened by File::open
                         THEN [h0 EXCEPT !.driveVia = @ \cup {"plain"}]
                         ELSE h0
            srcbuffer == Fill(wk[w].srcbuffer, data)
            ddata == IF dok THEN ReadAt(DestData(w), wk[w].doff) ELSE <<>>
            destbuffer == Fill(wk[w].destbuffer, ddata)
            bad == Mismatch(srcbuffer, destbuffer, len)
            h2 == LET h == [Op(h1, 1) EXCEPT
                                !.afterShort = @ + late,
                                !.short = @ \/ (fd /\ 0 < Len(ddata)
                                                   /\ Len(ddata) < BLOCK_SIZE)]
                      hd == IF ~dok THEN Fault(h, "read")
                            ELSE IF ~fd /\ Len(ddata) > 0
                                   \* the drive is read through destfile (O_DIRECT)
                                   THEN [h EXCEPT !.driveVia = @ \cup {"direct"}]
                                   ELSE h
                  IN  IF (dok \/ fd) /\ bad THEN Fault(hd, "compare") ELSE hd
        IN  Inject(rok /\ dok) /\
            IF ~rok /\ fd THEN
                \* srcfile.read(&mut srcbuffer)? returns the error
                /\ dok
                /\ wk' = [wk EXCEPT ![w].pc = "returned", ![w].result = ErrIo]
                /\ hist' = [hist EXCEPT ![w] = h1]
                /\ UNCHANGED progress
            ELSE IF AtEof(len) THEN
                /\ dok
                /\ wk' = [wk EXCEPT ![w].pc = "close"]
                /\ hist' = [hist EXCEPT ![w] = h1]
                /\ UNCHANGED progress
            ELSE
                /\ hist' = [hist EXCEPT ![w] = h2]
                /\ IF ~dok /\ ~fd THEN
                       \* destfile.read(destbuffer)? returns the error
                       /\ wk' = [wk EXCEPT ![w].pc = "returned",
                                           ![w].result = ErrIo,
                                           ![w].srcbuffer = srcbuffer]
                       /\ UNCHANGED progress
                   ELSE IF bad THEN
                       \* the count archive_read_data / read returned is dropped
                       /\ wk' = [wk EXCEPT ![w].pc = "returned",
                                           ![w].result = ErrVerify,
                                           ![w].srcbuffer = srcbuffer,
                                           ![w].destbuffer = destbuffer,
                                           ![w].soff = @ + len,
                                           ![w].doff = @ + Len(ddata)]
                       /\ UNCHANGED progress
                   ELSE
                       /\ wk' = [wk EXCEPT ![w].srcbuffer = srcbuffer,
                                           ![w].destbuffer = destbuffer,
                                           ![w].soff = @ + len,
                                           ![w].doff = @ + Len(ddata)]
                       /\ progress' = [progress EXCEPT ![w] = AddDone(@, len)]
    /\ StoreError(w)
    /\ UNCHANGED <<imageData, driveData, obs, args, ui>>

\* libarchive_close_for_reading(a)
verify_close(w) ==
    /\ wk[w].kind = "verify" /\ wk[w].pc = "close"
    /\ wk' = [wk EXCEPT ![w].pc = "finish"]
    /\ hist' = [hist EXCEPT ![w].closed = TRUE]
    /\ StoreError(w)
    /\ UNCHANGED <<imageData, driveData, progress, obs, args, ui, injected>>

\* progress.secs = timer.elapsed().as_secs(), a slip for +=
SetSecs(p, s) == [p EXCEPT !.secs = s]

\* progress.secs += timer.elapsed().as_secs()
AddSecs(p, s) == [p EXCEPT !.secs = @ + s]

\* progress.secs += timer.elapsed().as_secs(); progress.finished = true; Ok(())
verify_finish(w) ==
    /\ wk[w].kind = "verify" /\ wk[w].pc = "finish"
    /\ \E s \in 0..MaxSecs :
        /\ progress' = [progress EXCEPT
                          ![w] = [AddSecs(@, s) EXCEPT !.finished = TRUE]]
        /\ hist' = [hist EXCEPT ![w].elapsed = s]
    /\ wk' = [wk EXCEPT ![w].pc = "returned", ![w].result = "Ok"]
    /\ StoreError(w)
    /\ UNCHANGED <<imageData, driveData, obs, args, ui, injected>>

\* ------------------------------------------- worker thread (mainloop.rs)
\* A worker that runs copy / verify with these arguments and this Progress.
Dispatch(w, kind, fd, mime, ssize, dsize, drive, p) ==
    /\ wk' = [wk EXCEPT ![w] = [IdleWorker EXCEPT
                  !.kind = kind, !.pc = "begin", !.from_drive = fd,
                  !.mime = mime, !.ssize = ssize, !.dsize = dsize,
                  !.drive = drive]]
    /\ progress' = [progress EXCEPT ![w] = p]
    \* what the dispatch found: the modal, the error slot, the Progress tracked
    /\ hist' = [hist EXCEPT ![w] = [NoHist EXCEPT
                  !.progress0 = p, !.image0 = imageData, !.drive0 = driveData,
                  !.modal0 = ui.modal, !.error0 = error, !.prev = ui.progress]]
    /\ obs' = [obs EXCEPT ![w] = NoObs]

\* The observer locks the Progress and reads it (a UI tick, a render).
Poll(w) ==
    /\ wk[w].kind # "none"
    /\ obs' = [obs EXCEPT ![w] =
                  [seen |-> @.seen \cup {progress[w].done},
                   last |-> progress[w].done,
                   finished |-> progress[w].finished,
                   monotone |-> @.monotone /\ progress[w].done >= @.last,
                   \* the Progress as first read with finished = true, and
                   \* whether every later read found it the same
                   final |-> IF IsSome(@.final) \/ ~progress[w].finished
                               THEN @.final ELSE Some(progress[w]),
                   settled |-> @.settled /\
                               (IsSome(@.final) => progress[w] = Unwrap(@.final))]]
    /\ obs'[w] # obs[w]
    /\ UNCHANGED <<imageData, driveData, wk, progress, hist, error, args, ui,
                   injected, hz>>

\* --------------------------------------------- a call of copy or of verify
SizeOf(data) == {None, Some(Len(data))}

\* src.size as the caller found it: unknown, the length, or the length
\* before the last byte was appended (metadata read before the open).
SrcSizeOf(data) ==
    SizeOf(data) \cup (IF Len(data) > 1 THEN {Some(Len(data) - 1)} ELSE {})

\* imge::copy(&src, &dest, from_drive, image_mime_type, &progress)
CallCopy ==
    /\ \A w \in Workers : wk[w].kind = "none"
    /\ \E fd \in BOOLEAN, mime \in {"octet", "gzip"} :
        LET src == IF fd THEN driveData ELSE imageData
            dest == IF fd THEN imageData ELSE driveData
        IN  \E ssize \in SrcSizeOf(src), dsize \in SizeOf(dest) :
              Dispatch(1, "copy", fd, mime, ssize, dsize, Some("sdb"),
                       Progress(IF IsSome(ssize) THEN Unwrap(ssize) ELSE 0, 0))
    /\ UNCHANGED <<imageData, driveData, error, args, ui, injected, hz>>

\* imge::verify(&src, &dest, from_drive, &progress)
CallVerify ==
    /\ \A w \in Workers : wk[w].kind = "none"
    /\ \E fd \in BOOLEAN, secs \in 0..MaxSecs :
        LET src == IF fd THEN driveData ELSE imageData
        IN  Dispatch(1, "verify", fd, "octet", None, None, Some("sdb"),
                     Progress(Len(src), secs))
    /\ UNCHANGED <<imageData, driveData, error, args, ui, injected, hz>>

\* ----------------------------------------------------- drives (imge.rs)
\* The device names the operating system may list, in name order; sda is a
\* fixed disk, sdb a removable one.
DriveOrder == <<"sda", "sdb">>
DriveNames == {"sda", "sdb"}
Removable(n) == n = "sdb"

\* list(all_drives) when the devices of the set present are attached:
\* removable ones, or all, sorted by name; size is the capacity in bytes.
ListDrives(all_drives, present) ==
    LET keep(n) == n \in present /\ (Removable(n) \/ all_drives)
        names == SelectSeq(DriveOrder, keep)
    IN  [i \in 1..Len(names) |-> [name |-> names[i], size |-> Len(driveData)]]

\* ----------------------------------------------------- humanize (imge.rs)
\* A u64 is written in base 1024, lowest digit first, without leading zeros
\* (0 is <<0>>): s % 1024 is the first digit, s / 1024 the rest, and
\* s >= 1024 says there is more than one digit.  2^64 = 16 * 1024^6.
KiB == 1024
U64Digits == 7
U64TopDigit == 16

RECURSIVE Digits(_)
Digits(n) == IF n < KiB THEN <<n>> ELSE <<n % KiB>> \o Digits(n \div KiB)

IsU64(d) ==
    /\ Len(d) \in 1..U64Digits
    /\ \A k \in 1..Len(d) : d[k] \in 0..(KiB - 1)
    /\ Len(d) > 1 => d[Len(d)] > 0
    /\ Len(d) = U64Digits => d[Len(d)] < U64TopDigit

\* let sfx = ["bytes", "KiB", "MiB", "GiB", "TiB", "PiB", "EiB", "ZiB"];
sfx == <<"bytes", "KiB", "MiB", "GiB", "TiB", "PiB", "EiB", "ZiB">>

\* s > 1024: the comparison without the equality
AboveKiB(s) == Len(s) > 1 /\ s # <<0, 1>>

\* s >= 1024
AtLeastKiB(s) == Len(s) > 1

\* while s >= 1024 && i < sfx.len() - 1 { f = s % 1024; s /= 1024; i += 1; }
RECURSIVE humanize_loop(_, _, _)
humanize_loop(s, f, i) ==
    IF AtLeastKiB(s) /\ i < Len(sfx) - 1
      THEN humanize_loop(Tail(s), Head(s), i + 1)
      ELSE [s |-> s, f |-> f, i |-> i]

\* The value of the digits d that are left in s.
RECURSIVE Value(_)
Value(d) == IF Len(d) = 1 THEN d[1] ELSE d[1] + KiB * Value(Tail(d))

\* a / b rounded to the nearest integer, a half to the even one: what
\* format!("{:.1}", x) does with the digits after the first decimal.
RoundHalfEven(a, b) ==
    LET q == a \div b
        r == a % b
    IN  IF 2 * r > b \/ (2 * r = b /\ q % 2 = 1) THEN q + 1 ELSE q

\* format!("{:.1}", s as f64 + f as f64 / 1024.0): s + f / 1024 is exact in an
\* f64 (s < 2^54 / 1024 after one division, f < 1024).
Fixed1(s, f) ==
    LET tenths == 10 * s + RoundHalfEven(10 * f, KiB)
    IN  ToString(tenths \div 10) \o "." \o ToString(tenths % 10)

\* humanize(size)
humanize(size) ==
    LET r == humanize_loop(size, 0, 0)
    IN  IF r.i = 0
          THEN ToString(Value(r.s)) \o " " \o sfx[1]
          ELSE Fixed1(Value(r.s), r.f) \o " " \o sfx[r.i + 1]

NoHz == [size |-> <<0>>, out |-> None]

\* The byte counts humanize is called with: every value of the digit that
\* becomes the fraction, under a few leading digits, in every unit; the
\* digits below, which the result does not depend on, all 0 or all 1023.
TopDigits == {1, 15, 1023}
HumanizeInputs(tops) ==
    {<<d>> : d \in 0..(KiB - 1)}
      \cup {d \in UNION {{[k \in 1..n |-> IF k = n THEN top
                                          ELSE IF k = n - 1 THEN second
                                          ELSE low] :
                              top \in tops, second \in 0..(KiB - 1),
                              low \in {0, KiB - 1}} :
                         n \in 2..U64Digits} : IsU64(d)}

\* let s = imge::humanize(size), as render_drives and render_copying call it
Humanize ==
    /\ hz.out = None
    /\ hz' = [hz EXCEPT !.out = Some(humanize(hz.size))]
    /\ UNCHANGED <<imageData, driveData, wk, progress, hist, obs, error, args,
                   ui, injected>>

\* ------------------------------------------------- Mainloop (mainloop.rs)
\* Args, and of the image it names: its type (mime), and whether it is a
\* character device such as /dev/null.
NoArgs ==
    [all_drives |-> FALSE, drive |-> None, from_drive |-> FALSE,
     verify |-> FALSE, mime |-> "octet", char_device |-> FALSE]

\* Mainloop::new has not run: no UI, copy and verify are called directly.
NoUi ==
    [pc |-> "off", modal |-> "None", progress |-> None, exit |-> FALSE,
     drives |-> <<>>, selected_row |-> 0, selected_drive |-> None,
     selected_size |-> 0]

\* Mainloop::new(args): selected_drive is args.drive, the rest Default
NewUi(a) == [NoUi EXCEPT !.pc = "new", !.selected_drive = a.drive]

\* run() has returned (main then returns and the process, with its worker
\* threads, ends) or the UI thread has panicked.
ProcessAlive == ui.pc \notin {"exited", "panicked"}

\* The rows (from 0) whose drive is the selected one.
MatchingRows(u, drives) ==
    {i \in 0..(Len(drives) - 1) : u.selected_drive = Some(drives[i + 1].name)}

\* update_drives(refresh); listing is what imge::list_drives returns.
update_drives(u, refresh, listing) ==
    LET drives == IF refresh THEN listing ELSE u.drives
        rows == MatchingRows(u, drives)
        row == IF ~refresh THEN u.selected_row
               ELSE IF rows = {} THEN 0
               ELSE CHOOSE i \in rows : \A j \in rows : i <= j
    IN  IF refresh /\ Len(drives) = 0
          THEN [u EXCEPT !.drives = drives, !.selected_row = 0,
                         !.selected_drive = None, !.selected_size = 0]
          ELSE [u EXCEPT !.drives = drives, !.selected_row = row,
                         !.selected_drive = Some(drives[row + 1].name),
                         !.selected_size = drives[row + 1].size]

\* get_volumes(): the image's size is its length (selected_size for a
\* character device) unless it is compressed, the drive's is selected_size.
ImageSize(u, a) ==
    IF a.mime # "octet" THEN None
    ELSE IF a.char_device THEN Some(u.selected_size)
    ELSE Some(Len(imageData))
SrcSize(u, a) == IF a.from_drive THEN Some(u.selected_size) ELSE ImageSize(u, a)
DestSize(u, a) == IF a.from_drive THEN ImageSize(u, a) ELSE Some(u.selected_size)

\* A worker no thread has been spawned for yet.
FreeSlot(w) == wk[w].kind = "none"
HasFreeSlot == \E w \in Workers : FreeSlot(w)
NewSlot == CHOOSE w \in Workers : FreeSlot(w) /\ \A v \in Workers : FreeSlot(v) => w <= v

\* self.selected_drive.clone().unwrap() in get_volumes panics on None.
Panic(u) ==
    /\ ui' = [u EXCEPT !.pc = "panicked"]
    /\ UNCHANGED <<wk, progress, hist, obs>>

\* start_copying() from the Mainloop u, which then goes on at pc.
start_copying(u, pc) ==
    IF ~IsSome(u.selected_drive) THEN Panic(u)
    ELSE
        /\ HasFreeSlot
        /\ Dispatch(NewSlot, "copy", args.from_drive, args.mime,
                    SrcSize(u, args), DestSize(u, args), u.selected_drive,
                    Progress(IF IsSome(SrcSize(u, args))
                               THEN Unwrap(SrcSize(u, args)) ELSE 0, 0))
        /\ ui' = [u EXCEPT !.pc = pc, !.progress = Some(NewSlot),
                           !.modal = "Copying"]

\* size: copying_progress.size, without the fallback to done
VerifySizeOnly(copying_progress) == copying_progress.size

\* size: if copying_progress.size > 0 { .size } else { .done }
VerifySize(copying_progress) ==
    IF copying_progress.size > 0
      THEN copying_progress.size
      ELSE copying_progress.done

\* start_verifying() from the Mainloop u, which then goes on at pc.
start_verifying(u, pc) ==
    IF ~IsSome(u.selected_drive) THEN Panic(u)
    ELSE IF args.char_device THEN
        \* nothing to read back from a character device
        /\ ui' = [u EXCEPT !.pc = pc, !.modal = "Victory"]
        /\ UNCHANGED <<wk, progress, hist, obs>>
    ELSE
        LET copying_progress == progress[Unwrap(u.progress)]
        IN  /\ HasFreeSlot
            /\ Dispatch(NewSlot, "verify", args.from_drive, args.mime,
                        SrcSize(u, args), DestSize(u, args), u.selected_drive,
                        Progress(VerifySize(copying_progress),
                                 copying_progress.secs))
            /\ ui' = [u EXCEPT !.pc = pc, !.progress = Some(NewSlot),
                               !.modal = "Verifying"]

\* run(), before the loop: update_drives(true), start_copying() under -d.
run_start ==
    /\ ui.pc = "new"
    /\ \E present \in SUBSET DriveNames :
        LET u == update_drives(ui, TRUE, ListDrives(args.all_drives, present))
        IN  IF IsSome(args.drive)
              THEN start_copying(u, "check")
              ELSE /\ ui' = [u EXCEPT !.pc = "check"]
                   /\ UNCHANGED <<wk, progress, hist, obs>>
    /\ UNCHANGED <<imageData, driveData, error, args, injected, hz>>

\* run(), top of the loop: leave on exit; else look at the error slot and at
\* progress.finished, then draw.
run_check ==
    /\ ui.pc = "check"
    /\ IF ui.exit THEN
           /\ ui' = [ui EXCEPT !.pc = "exited"]
           /\ UNCHANGED <<wk, progress, hist, obs>>
       ELSE IF IsSome(error) THEN
           /\ ui' = [ui EXCEPT !.pc = "events", !.modal = "Error"]
           /\ UNCHANGED <<wk, progress, hist, obs>>
       ELSE IF IsSome(ui.progress) /\ progress[Unwrap(ui.progress)].finished THEN
           IF args.verify /\ ui.modal = "Copying" THEN
               start_verifying(ui, "events")
           ELSE IF ~IsSome(args.drive) THEN
               /\ ui' = [ui EXCEPT !.pc = "events", !.modal = "Victory"]
               /\ UNCHANGED <<wk, progress, hist, obs>>
           ELSE
               /\ ui' = [ui EXCEPT !.pc = "events", !.exit = TRUE]
               /\ UNCHANGED <<wk, progress, hist, obs>>
       ELSE
           /\ ui' = [ui EXCEPT !.pc = "events"]
           /\ UNCHANGED <<wk, progress, hist, obs>>
    /\ UNCHANGED <<imageData, driveData, error, args, injected, hz>>

Keys == {"CtrlC", "i", "Enter", "a", "r", "Up", "Down", "Esc", "x"}

\* event::poll(100 ms) times out, or the event is no key press.
no_event ==
    /\ ui.pc = "events"
    /\ ui' = [ui EXCEPT !.pc = "check"]
    /\ UNCHANGED <<imageData, driveData, wk, progress, hist, obs, error, args,
                   injected, hz>>

\* Enter without the test of selected_drive
AnyRow(u) == TRUE

\* if self.selected_drive.is_some()
DriveSelected(u) == IsSome(u.selected_drive)

\* handle_events(key), then back to the top of the loop.
handle_events(key) ==
    /\ ui.pc = "events"
    /\ LET u == [ui EXCEPT !.pc = "check"]
           same == UNCHANGED <<wk, progress, hist, obs, error, args>>
       IN  IF key = "CtrlC" THEN
               ui' = [u EXCEPT !.exit = TRUE] /\ same
           ELSE IF key = "i" THEN
               /\ ui' = [u EXCEPT !.modal =
                            IF @ = "None" THEN "Keybindings"
                            ELSE IF @ = "Keybindings" THEN "None" ELSE @]
               /\ same
           ELSE IF ui.modal = "Warning" /\ key = "Enter" THEN
               start_copying(u, "check") /\ UNCHANGED <<error, args>>
           ELSE IF ui.modal = "None" THEN
               IF key \in {"a", "r"} THEN
                   \E present \in SUBSET DriveNames :
                       LET a == IF key = "a"
                                  THEN [args EXCEPT !.all_drives = ~@]
                                  ELSE args
                       IN  /\ args' = a
                           /\ ui' = update_drives(u, TRUE,
                                        ListDrives(a.all_drives, present))
                           /\ UNCHANGED <<wk, progress, hist, obs, error>>
               ELSE IF key = "Up" /\ ui.selected_row > 0 THEN
                   /\ ui' = update_drives([u EXCEPT !.selected_row = @ - 1],
                                          FALSE, <<>>)
                   /\ same
               ELSE IF key = "Down" /\ ui.selected_row + 1 < Len(ui.drives) THEN
                   /\ ui' = update_drives([u EXCEPT !.selected_row = @ + 1],
                                          FALSE, <<>>)
                   /\ same
               ELSE IF key = "Enter" /\ DriveSelected(ui) THEN
                   ui' = [u EXCEPT !.modal = "Warning"] /\ same
               ELSE IF key = "Esc" THEN
                   ui' = [u EXCEPT !.exit = TRUE] /\ same
               ELSE
                   ui' = u /\ same
           ELSE IF key = "Esc" THEN
               /\ ui' = [u EXCEPT !.modal = "None", !.progress = None]
               /\ error' = None
               /\ UNCHANGED <<wk, progress, hist, obs, args>>
           ELSE
               ui' = u /\ same
    /\ UNCHANGED <<imageData, driveData, injected, hz>>

Init ==
    /\ imageData \in SeqsUpTo(MaxLen)
    /\ driveData \in DriveVariants(imageData)
    /\ wk = [w \in Workers |-> IdleWorker]
    /\ progress = [w \in Workers |-> Progress(0, 0)]
    /\ hist = [w \in Workers |-> NoHist]
    /\ obs = [w \in Workers |-> NoObs]
    /\ error = None
    /\ args = NoArgs
    /\ ui = NoUi
    /\ injected = 0
    /\ hz = NoHz

Copy_begin == ProcessAlive /\ UNCHANGED hz /\ \E w \in Workers : copy_begin(w)
Copy_loop == ProcessAlive /\ UNCHANGED hz /\ \E w \in Workers : copy_loop(w)
Copy_close == ProcessAlive /\ UNCHANGED hz /\ \E w \in Workers : copy_close(w)
Copy_finish == ProcessAlive /\ UNCHANGED hz /\ \E w \in Workers : copy_finish(w)
Verify_begin == ProcessAlive /\ UNCHANGED hz /\ \E w \in Workers : verify_begin(w)
Verify_loop == ProcessAlive /\ UNCHANGED hz /\ \E w \in Workers : verify_loop(w)
Verify_close == ProcessAlive /\ UNCHANGED hz /\ \E w \in Workers : verify_close(w)
Verify_finish == ProcessAlive /\ UNCHANGED hz /\ \E w \in Workers : verify_finish(w)
Observe == \E w \in Workers : Poll(w)

Engine ==
    \/ Copy_begin \/ Copy_loop \/ Copy_close \/ Copy_finish
    \/ Verify_begin \/ Verify_loop \/ Verify_close \/ Verify_finish

Next == CallCopy \/ CallVerify \/ Engine \/ Observe

Spec == Init /\ [][Next]_vars

\* ------------------------------------------------------- the whole program
\* The image and the drive a run of the program starts with.
UiImages == {<<1, 0>>}
UiDrives == {<<0, 0>>}

\* The command lines: an uncompressed image with or without -d /dev/sdb, -f
\* and -v; -d naming the fixed disk; a compressed image written and
\* verified; a drive read into a character device and verified.
UiArgs ==
    [all_drives : {FALSE}, drive : {None, Some("sdb")},
     from_drive : BOOLEAN, verify : BOOLEAN, mime : {"octet"},
     char_device : {FALSE}]
      \cup {[NoArgs EXCEPT !.drive = Some("sda")],
            [NoArgs EXCEPT !.drive = Some("sdb"), !.verify = TRUE,
                           !.mime = "gzip"],
            [NoArgs EXCEPT !.drive = Some("sdb"), !.verify = TRUE,
                           !.from_drive = TRUE, !.char_device = TRUE]}

InitUI ==
    /\ imageData \in UiImages
    /\ driveData \in UiDrives
    /\ wk = [w \in Workers |-> IdleWorker]
    /\ progress = [w \in Workers |-> Progress(0, 0)]
    /\ hist = [w \in Workers |-> NoHist]
    /\ obs = [w \in Workers |-> NoObs]
    /\ error = None
    /\ args \in UiArgs
    /\ ui = NewUi(args)
    /\ injected = 0
    /\ hz = NoHz

Key_event == \E key \in Keys : handle_events(key)

NextUI == run_start \/ run_check \/ no_event \/ Key_event \/ Engine

SpecUI == InitUI /\ [][NextUI]_vars

\* ------------------------------------------------------ humanize, by itself
InitHumanize ==
    /\ imageData = <<>>
    /\ driveData = <<>>
    /\ wk = [w \in Workers |-> IdleWorker]
    /\ progress = [w \in Workers |-> Progress(0, 0)]
    /\ hist = [w \in Workers |-> NoHist]
    /\ obs = [w \in Workers |-> NoObs]
    /\ error = None
    /\ args = NoArgs
    /\ ui = NoUi
    /\ injected = 0
    /\ \E size \in HumanizeInputs(TopDigits) : hz = [NoHz EXCEPT !.size = size]

NextHumanize == Humanize

SpecHumanize == InitHumanize /\ [][NextHumanize]_vars


\* ----------------------------------------------------------------- claims
Returned(w) == wk[w].pc = "returned"
IsCopy(w) == wk[w].kind = "copy"
IsVerify(w) == wk[w].kind = "verify"
\* The source and the destination as they were when the call began.
Src0(w) == IF wk[w].from_drive THEN hist[w].drive0 ELSE hist[w].image0
Dest0(w) == IF wk[w].from_drive THEN hist[w].image0 ELSE hist[w].drive0
\* No open, read or write failed in the call (a mismatch is no I/O failure).
NoIoFault(w) == hist[w].faults \subseteq {"compare"}
SizesKnownAndTooLarge(w) ==
    /\ IsSome(wk[w].ssize) /\ IsSome(wk[w].dsize)
    /\ Unwrap(wk[w].ssize) > Unwrap(wk[w].dsize)

\* C1: in copy, a failed read of the source or a failed write to the
\* destination aborts at once: no read or write follows it, and the call
\* does not return Ok.
C1_AbortOnFailure ==
    \A w \in Workers :
        (IsCopy(w) /\ hist[w].faults \cap {"read", "write"} # {})
            => /\ hist[w].afterFail = 0
               /\ Returned(w) => wk[w].result # "Ok"

\* C2 as stated: in either direction, known sizes with src.size > dest.size
\* make copy fail with the size error before anything is opened or written.
C2_SizeGuardEitherDirection ==
    \A w \in Workers :
        (IsCopy(w) /\ wk[w].pc # "begin" /\ SizesKnownAndTooLarge(w))
            => /\ wk[w].result = ErrTooLarge
               /\ ~hist[w].destOpened /\ hist[w].writes = 0

\* C2 amended: image to drive (from_drive false), known sizes with
\* src.size > dest.size make copy fail with the size error before anything
\* is opened or written; drive to image, copy never returns the size error.
C2_SizeGuardImageToDrive ==
    \A w \in Workers :
        /\ (IsCopy(w) /\ wk[w].pc # "begin" /\ ~wk[w].from_drive
                /\ SizesKnownAndTooLarge(w))
              => /\ wk[w].result = ErrTooLarge
                 /\ ~hist[w].destOpened /\ hist[w].writes = 0
        /\ (IsCopy(w) /\ wk[w].from_drive) => wk[w].result # ErrTooLarge

C2_Witness ==
    \E w \in Workers :
        /\ IsCopy(w) /\ ~wk[w].from_drive /\ SizesKnownAndTooLarge(w)
        /\ wk[w].pc = "returned" /\ wk[w].result = ErrTooLarge

\* The positions (from 1) at which source and destination differ.
DiffSet(w) == {i \in 1..Len(Src0(w)) : Src0(w)[i] # Dest0(w)[i]}
OneByteDiff(w) ==
    /\ Len(Src0(w)) = Len(Dest0(w))
    /\ Cardinality(DiffSet(w)) = 1
\* The offset (from 0) of the differing byte.
DiffOffset(w) == (CHOOSE i \in DiffSet(w) : TRUE) - 1

\* C3: image and drive equal but for one byte at offset k: verify returns
\* "Verification failed", finished is never set, and done is the size of
\* the blocks before the one holding k (done <= k, done < full size).
C3_VerifyDetectsOneByte ==
    \A w \in Workers :
        (IsVerify(w) /\ OneByteDiff(w) /\ NoIoFault(w))
            => /\ ~progress[w].finished
               /\ Returned(w) =>
                    /\ wk[w].result = ErrVerify
                    /\ progress[w].done
                         = BLOCK_SIZE * (DiffOffset(w) \div BLOCK_SIZE)
                    /\ progress[w].done <= DiffOffset(w)
                    /\ progress[w].done < Len(Src0(w))

C3_Witness ==
    \E w \in Workers :
        /\ IsVerify(w) /\ OneByteDiff(w) /\ NoIoFault(w) /\ Returned(w)
        /\ DiffOffset(w) >= BLOCK_SIZE
        /\ wk[w].result = ErrVerify /\ progress[w].done = BLOCK_SIZE

\* The workers whose call has neither finished nor failed.
ActiveWorkers ==
    {w \in Workers : wk[w].kind # "none" /\ wk[w].pc # "returned"}

\* C4: at any time at most one worker thread is running copy or verify,
\* whatever keys are pressed.
C4_OneWorkerAtATime == Cardinality(ActiveWorkers) <= 1

\* C5: what an observer polling one phase sees of done never decreases,
\* never exceeds done as it is (so not the final done either), and once
\* the phase has finished without a failure is N, the size of the source.
C5_ProgressMonotone ==
    \A w \in Workers :
        /\ obs[w].monotone
        /\ obs[w].last <= progress[w].done
        /\ \A d \in obs[w].seen : d <= progress[w].done
        /\ (obs[w].finished /\ hist[w].faults = {})
              => obs[w].last = Len(Src0(w))

C5_Witness ==
    \E w \in Workers :
        /\ obs[w].finished /\ hist[w].faults = {}
        /\ Len(Src0(w)) > BLOCK_SIZE
        /\ obs[w].seen = {0, BLOCK_SIZE, Len(Src0(w))}

\* C6: finished is set only on clean completion: after any open, read,
\* write or comparison failure in the phase it stays false.
C6_FinishedOnlyOnCleanCompletion ==
    \A w \in Workers : progress[w].finished => hist[w].faults = {}

\* C7: a copy of N known bytes into a destination that holds them, without
\* I/O failure, returns Ok with done = N and finished set, and the bytes
\* written, in order, are the N bytes of the source.
C7_CopyRoundTrip ==
    \A w \in Workers :
        (/\ IsCopy(w) /\ Returned(w) /\ hist[w].faults = {}
         /\ wk[w].ssize = Some(Len(Src0(w)))
         /\ (wk[w].from_drive \/ Len(Dest0(w)) >= Len(Src0(w))))
            => /\ wk[w].result = "Ok"
               /\ progress[w].done = Len(Src0(w))
               /\ progress[w].finished
               /\ hist[w].wlog = Src0(w)
               /\ Take(DestData(w), Len(Src0(w))) = Src0(w)

C7_Witness ==
    \E w \in Workers :
        /\ IsCopy(w) /\ Returned(w) /\ hist[w].faults = {}
        /\ wk[w].ssize = Some(Len(Src0(w)))
        /\ Len(Src0(w)) > BLOCK_SIZE
        /\ wk[w].result = "Ok" /\ hist[w].wlog = Src0(w)

\* N covers at least one full block and a partial last one.
FullAndPartial(n) == n > BLOCK_SIZE /\ n % BLOCK_SIZE # 0

\* C8: verify of an image and a drive of the same N bytes, N one full block
\* at least plus a partial last one, returns Ok with done = N and finished.
C8_VerifySuccess ==
    \A w \in Workers :
        (/\ IsVerify(w) /\ Returned(w) /\ hist[w].faults = {}
         /\ Src0(w) = Dest0(w) /\ FullAndPartial(Len(Src0(w))))
            => /\ wk[w].result = "Ok"
               /\ progress[w].done = Len(Src0(w))
               /\ progress[w].finished

C8_Witness ==
    \E w \in Workers :
        /\ IsVerify(w) /\ Returned(w) /\ hist[w].faults = {}
        /\ Src0(w) = Dest0(w) /\ Len(Src0(w)) = BLOCK_SIZE + 1
        /\ wk[w].result = "Ok" /\ progress[w].finished

\* C9: when copy returns the size error it has opened neither side, read
\* and written nothing, and left the files and the Progress as they were.
C9_SizeGuardTouchesNothing ==
    \A w \in Workers :
        (IsCopy(w) /\ wk[w].result = ErrTooLarge)
            => /\ ~hist[w].srcOpened /\ ~hist[w].destOpened
               /\ hist[w].reads = 0 /\ hist[w].writes = 0
               /\ progress[w] = hist[w].progress0
               /\ imageData = hist[w].image0
               /\ driveData = hist[w].drive0

C9_Witness ==
    \E w \in Workers :
        /\ IsCopy(w) /\ wk[w].result = ErrTooLarge /\ Returned(w)
        /\ Len(hist[w].drive0) > 0
        /\ error = Some(ErrTooLarge)

\* C10: in verify, in both directions, the endpoint opened with O_DIRECT is
\* the drive, and every drive byte compared was read through that handle.
C10_DriveSideDirect ==
    \A w \in Workers :
        (IsVerify(w) /\ hist[w].destOpened)
            => /\ hist[w].direct = "drive"
               /\ hist[w].driveVia \subseteq {"direct"}

\* C11: under -d, the copy that starts without the Warning modal has the
\* drive named by -d as its drive endpoint, whatever drives are listed.
C11_AutoStartUsesNamedDrive ==
    \A w \in Workers :
        (IsSome(args.drive) /\ IsCopy(w) /\ hist[w].modal0 = "None")
            => wk[w].drive = args.drive

\* C12: a dispatched worker runs until its call returns: the process never
\* ends (run() returning on exit, a panic) with a call still under way.
C12_WorkerRunsToTheEnd == ~ProcessAlive => ActiveWorkers = {}

\* C13: after a copy and the verify that follows it have both returned Ok,
\* the copy's secs is the copy's elapsed seconds and the verify's secs is
\* that plus the verify's own elapsed seconds.
C13_SecsAdditive ==
    \A w \in Workers :
        (IsVerify(w) /\ Returned(w) /\ wk[w].result = "Ok"
            /\ IsSome(hist[w].prev))
            => LET c == Unwrap(hist[w].prev)
               IN  /\ IsCopy(c) /\ wk[c].result = "Ok"
                   /\ progress[c].secs = hist[c].elapsed
                   /\ progress[w].secs = hist[c].elapsed + hist[w].elapsed

C13_Witness ==
    \E w \in Workers :
        /\ IsVerify(w) /\ Returned(w) /\ wk[w].result = "Ok"
        /\ IsSome(hist[w].prev)
        /\ hist[Unwrap(hist[w].prev)].elapsed = MaxSecs
        /\ hist[w].elapsed = MaxSecs
        /\ progress[w].secs = 2 * MaxSecs

\* C14: the destination of a copy is opened with O_DSYNC exactly when it is
\* the drive (image to drive), never when it is the image (drive to image).
C14_DsyncIffDrive ==
    \A w \in Workers :
        (IsCopy(w) /\ hist[w].destOpened)
            => (hist[w].dsync # "none" <=> ~wk[w].from_drive)

\* What C15 lets humanize print for the byte count of digits size: with
\* i = Len(size) - 1 (1024^i <= n < 1024^(i+1)), s the leading digit
\* (floor(n / 1024^i)) and f the next one (the remainder of the last
\* division), the integer s when i = 0, else s + f / 1024 to one decimal:
\* a number of tenths at most half a tenth away from it.
HumanizeExpected(size) ==
    LET n == Len(size)
        i == n - 1
        s == size[n]
        f == IF i = 0 THEN 0 ELSE size[n - 1]
        lo == 10 * s + (10 * f) \div KiB
        near(t) == (KiB * t - 10 * (KiB * s + f)) \in (-(KiB \div 2))..(KiB \div 2)
    IN  IF i = 0
          THEN {ToString(s) \o " bytes"}
          ELSE {ToString(t \div 10) \o "." \o ToString(t % 10) \o " " \o sfx[i + 1] :
                    t \in {u \in {lo, lo + 1} : near(u)}}

\* C15: for every u64 n, humanize(n) prints the unit i with
\* 1024^i <= n < 1024^(i+1), n itself without a decimal when i = 0, and
\* floor(n / 1024^i) plus (remainder of the last division) / 1024 with one
\* decimal when i >= 1; 0 -> "0 bytes", 1024 -> "1.0 KiB",
\* 1536 -> "1.5 KiB", 1073741824 -> "1.0 GiB".
C15_Humanize ==
    IsSome(hz.out) =>
        /\ Unwrap(hz.out) \in HumanizeExpected(hz.size)
        /\ hz.size = Digits(0) => Unwrap(hz.out) = "0 bytes"
        /\ hz.size = Digits(1024) => Unwrap(hz.out) = "1.0 KiB"
        /\ hz.size = Digits(1536) => Unwrap(hz.out) = "1.5 KiB"
        /\ hz.size = Digits(1073741824) => Unwrap(hz.out) = "1.0 GiB"

\* humanize(u64::MAX)
C15_Witness ==
    /\ hz.size = [k \in 1..U64Digits |->
                     IF k = U64Digits THEN U64TopDigit - 1 ELSE KiB - 1]
    /\ hz.out = Some("16.0 EiB")

\* C16: in each phase finished is set once, together with secs and as the
\* worker's last change of the Progress: a Progress with finished set
\* belongs to a call that has returned Ok, and the Progress an observer
\* first read with finished = true is the Progress at every later time.
C16_FinishedIsFinal ==
    \A w \in Workers :
        /\ progress[w].finished => (Returned(w) /\ wk[w].result = "Ok")
        /\ obs[w].settled
        /\ IsSome(obs[w].final) => progress[w] = Unwrap(obs[w].final)

C16_Witness ==
    \E w \in Workers :
        /\ IsSome(obs[w].final)
        /\ obs[w].seen = {0, BLOCK_SIZE, Len(Src0(w))}
        /\ Len(Src0(w)) > BLOCK_SIZE
        /\ Unwrap(obs[w].final).done = Len(Src0(w))
        /\ Unwrap(obs[w].final).secs = MaxSecs

\* C17: verify (image to drive) returns Ok only if the drive holds every
\* byte of the image at its offset: a drive read that yields fewer bytes
\* than the image's block does not let the call succeed.
C17_VerifyOkOnlyIfDriveRead ==
    \A w \in Workers :
        (IsVerify(w) /\ ~wk[w].from_drive /\ Returned(w)
            /\ wk[w].result = "Ok" /\ hist[w].faults = {})
            => /\ Len(hist[w].drive0) >= Len(hist[w].image0)
               /\ Take(hist[w].drive0, Len(hist[w].image0)) = hist[w].image0

\* C18: an error a worker has stored stays in the slot until a UI tick has
\* put the Error modal up for it: the slot is emptied only by Esc in the
\* Error modal.
C18_ErrorShownBeforeCleared ==
    [][(IsSome(error) /\ error' = None) => ui.modal = "Error"]_vars

\* C19: an error in the slot is the error of the worker whose Progress the
\* UI tracks: that worker's call has returned, with this error.
C19_ErrorFromTrackedWorker ==
    IsSome(error) =>
        /\ IsSome(ui.progress)
        /\ Returned(Unwrap(ui.progress))
        /\ wk[Unwrap(ui.progress)].result = Unwrap(error)

\* C20: a verify worker has been dispatched with the verify option set, from
\* the Copying modal, an empty error slot and the tracked copy's Progress
\* finished; its Progress started as done = 0, finished = false, size = the
\* copy's size (the copy's done when that is 0), secs = the copy's secs; and
\* the copy it follows is never again the Progress tracked in the Copying
\* modal, so no second verify follows the same copy.
C20_VerifyDispatch ==
    \A w \in Workers :
        IsVerify(w) =>
            /\ args.verify
            /\ hist[w].modal0 = "Copying"
            /\ hist[w].error0 = None
            /\ IsSome(hist[w].prev)
            /\ LET c == Unwrap(hist[w].prev)
               IN  /\ IsCopy(c) /\ progress[c].finished
                   /\ hist[w].progress0 =
                        [size |-> IF progress[c].size > 0
                                    THEN progress[c].size
                                    ELSE progress[c].done,
                         done |-> 0,
                         secs |-> progress[c].secs,
                         finished |-> FALSE]
            /\ ~(ui.modal = "Copying" /\ ui.progress = hist[w].prev)
            /\ \A v \in Workers :
                   (IsVerify(v) /\ hist[v].prev = hist[w].prev) => v = w

\* The verify that follows the copy of a compressed image (size unknown).
C20_Witness ==
    \E w \in Workers :
        /\ IsVerify(w) /\ IsSome(hist[w].prev)
        /\ progress[Unwrap(hist[w].prev)].size = 0
        /\ hist[w].progress0.size = Len(hist[w].image0)
        /\ hist[w].progress0.size > 0
        /\ hist[w].progress0.secs = MaxSecs

\* A step that spawns a copy worker.
NewCopy == \E w \in Workers : wk[w].kind = "none" /\ wk'[w].kind = "copy"

\* C21: a copy worker is spawned only by Enter in the Warning modal, or by
\* run() at its start when -d was given; and the Warning modal is entered
\* only by Enter in the drive list (modal None) with a drive selected.
C21_CopyOnlyOnConfirmation ==
    [][/\ NewCopy =>
            \/ ui.modal = "Warning" /\ handle_events("Enter")
            \/ IsSome(args.drive) /\ run_start
       /\ (ui.modal # "Warning" /\ ui'.modal = "Warning") =>
            /\ ui.modal = "None" /\ IsSome(ui.selected_drive)
            /\ handle_events("Enter")]_vars

C21_Witness ==
    \E w \in Workers :
        /\ IsCopy(w) /\ hist[w].modal0 = "Warning"
        /\ ~IsSome(args.drive)
        /\ wk[w].drive = Some("sdb")

\* C22: in verify, once an image-side read has returned fewer bytes than a
\* full block (and more than none), no further read is issued on either
\* side.
C22_ShortReadIsFinal ==
    \A w \in Workers : IsVerify(w) => hist[w].afterShort = 0

\* C23: in copy, the reader or writer has been closed when finished is set;
\* if nothing failed, every byte of the source has been handed to the
\* destination by then, and a compressing writer has flushed its trailer.
C23_ClosedBeforeFinished ==
    \A w \in Workers :
        (IsCopy(w) /\ progress[w].finished)
            => /\ hist[w].closed
               /\ hist[w].faults = {} =>
                    /\ hist[w].wlog = Src0(w)
                    /\ (wk[w].from_drive /\ wk[w].mime # "octet")
                          => hist[w].trailer

C23_Witness ==
    \E w \in Workers :
        /\ IsCopy(w) /\ wk[w].from_drive /\ wk[w].mime # "octet"
        /\ obs[w].finished /\ hist[w].faults = {}
        /\ hist[w].closed /\ hist[w].trailer
        /\ Len(Src0(w)) > BLOCK_SIZE /\ hist[w].wlog = Src0(w)

\* C24: while size > 0, done never exceeds size, in copy and in verify.
C24_DoneWithinSize ==
    \A w \in Workers :
        progress[w].size > 0 => progress[w].done <= progress[w].size

\* C25: when verify has returned, by whatever path, the drive-side buffer
\* it allocated has been released.
C25_BufferReleased ==
    \A w \in Workers :
        (IsVerify(w) /\ Returned(w)) => hist[w].buffer # "allocated"

====
